---------------------------- MODULE Spec2Model ----------------------------
(***************************************************************************)
(* A model of the spectral feature-map engine of GeometricKernels:         *)
(*                                                                         *)
(*   - RejectionSamplingFeatureMapHyperbolic / RejectionSamplingFeatureMap *)
(*     SPD (feature_maps/rejection_sampling.py) over the primitives of     *)
(*     SymmetricPositiveDefiniteMatrices (spaces/spd.py);                  *)
(*   - AveragingAdditionTheorem and AveragedLieGroupCharacter              *)
(*     (spaces/homogeneous_spaces.py).                                     *)
(*                                                                         *)
(* Numbers.  The code computes in floating point; the model computes the   *)
(* same formulas exactly, on a lattice of inputs where every intermediate  *)
(* value is an integer:                                                    *)
(*   - matrices are tuples of rows of integers;                            *)
(*   - a positive real that the code takes the logarithm of is a power of  *)
(*     two, and its logarithm is kept in units of ln 2 (Log2);             *)
(*   - rho is kept doubled (rho2 = 2*rho), so a real log-exponent is kept  *)
(*     in units of (ln 2)/2;                                               *)
(*   - a spectral parameter lambda is kept as the integer k with           *)
(*     lambda = k * pi / (4 ln 2), so an imaginary log-exponent is kept in *)
(*     units of pi/4;                                                      *)
(*   - a real feature is the fixed-point numerator n of n / 2^FracBits;    *)
(*   - a feature row is [num, den2]: its entries are num[k]/sqrt(den2), so *)
(*     the division by an (irrational) Euclidean norm is exact.            *)
(***************************************************************************)
EXTENDS Integers, Sequences, FiniteSets, TLC

(***************************************************************************)
(* Bounds of the model.                                                    *)
(***************************************************************************)
MaxN == 2
MaxO == 2
MaxKey == 1
MaxGen == 5
FracBits == 4
MaxS == 2
MaxL == 3
MaxRows == 8

(***************************************************************************)
(* Arithmetic helpers.                                                     *)
(***************************************************************************)
RECURSIVE SeqSum(_)
SeqSum(s) == IF s = <<>> THEN 0 ELSE s[1] + SeqSum(Tail(s))

RECURSIVE Pow2(_)
Pow2(n) == IF n = 0 THEN 1 ELSE 2 * Pow2(n - 1)

Abs(x) == IF x < 0 THEN -x ELSE x

Sign(x) == IF x < 0 THEN -1 ELSE IF x > 0 THEN 1 ELSE 0

\* The exact square root of a perfect square.
Isqrt(n) == CHOOSE r \in 0..n : r * r = n

\* The exact base-two logarithm of a power of two.
Log2(n) == CHOOSE e \in 0..n : Pow2(e) = n

\* A function over 1..n as the tuple of its values (each computed once).
Tuple(f) == f \o <<>>

SumSq(s) == SeqSum(Tuple([k \in 1..Len(s) |-> s[k] * s[k]]))

\* All sequences over S of length 1..n.
BatchesOf(S, n) == UNION {[1..m -> S] : m \in 1..n}

(***************************************************************************)
(* Matrices.                                                               *)
(***************************************************************************)
matmul(A, B) ==
    Tuple([i \in 1..Len(A) |->
        Tuple([j \in 1..Len(B[1]) |->
            SeqSum(Tuple([k \in 1..Len(B) |-> A[i][k] * B[k][j]]))])])

transpose(A) == Tuple([i \in 1..Len(A[1]) |-> Tuple([j \in 1..Len(A) |-> A[j][i]])])

diag_extract(A) == Tuple([i \in 1..Len(A) |-> A[i][i]])

Diag(v) == Tuple([i \in 1..Len(v) |-> Tuple([j \in 1..Len(v) |-> IF i = j THEN v[i] ELSE 0])])

Identity(n) == Tuple([i \in 1..n |-> Tuple([j \in 1..n |-> IF i = j THEN 1 ELSE 0])])

\* Determinant by expansion along the first row (sizes 1, 2 and 3).
det(A) ==
    CASE Len(A) = 1 -> A[1][1]
      [] Len(A) = 2 -> A[1][1] * A[2][2] - A[1][2] * A[2][1]
      [] Len(A) = 3 ->
            A[1][1] * (A[2][2] * A[3][3] - A[2][3] * A[3][2])
          - A[1][2] * (A[2][1] * A[3][3] - A[2][3] * A[3][1])
          + A[1][3] * (A[2][1] * A[3][2] - A[2][2] * A[3][1])


(***************************************************************************)
(* Array-backend primitives used by spd.py (lab / lab_extras), on the      *)
(* lattice.                                                                *)
(***************************************************************************)
\* B.cholesky: the lower-triangular factor, by the Cholesky-Banachiewicz
\* recurrence.
cholesky(g) ==
    LET n == Len(g)
        L[i \in 1..n, j \in 1..n] ==
            IF j > i THEN 0
            ELSE LET s == SeqSum(Tuple([k \in 1..(j - 1) |-> L[i, k] * L[j, k]]))
                 IN  IF i = j THEN Isqrt(g[i][i] - s)
                     ELSE (g[i][j] - s) \div L[j, j]
    IN  Tuple([i \in 1..n |-> Tuple([j \in 1..n |-> L[i, j]])])

\* One Householder step of LAPACK's geqrf on column j of A (dlarfg): the
\* reflector H with H * A[j.., j] = beta * e_j, beta = -sign(alpha) * norm, and
\* H = I when the column is already zero below the diagonal.
HouseholderReflector(A, j) ==
    LET n     == Len(A)
        alpha == A[j][j]
        below == Tuple([i \in 1..(n - j) |-> A[j + i][j]])
        norm  == Isqrt(alpha * alpha + SumSq(below))
        beta  == IF alpha < 0 THEN norm ELSE -norm
        v     == Tuple([i \in 1..n |->
                     IF i < j THEN 0 ELSE IF i = j THEN alpha - beta ELSE A[i][j]])
        vv    == SumSq(v)
    IN  IF SumSq(below) = 0
        THEN Identity(n)
        ELSE Tuple([i \in 1..n |-> Tuple([k \in 1..n |->
                 (IF i = k THEN 1 ELSE 0) - ((2 * v[i] * v[k]) \div vv)])])

RECURSIVE HouseholderQR(_, _, _)
HouseholderQR(A, Q, j) ==
    IF j > Len(A) THEN [Q |-> Q, R |-> A]
    ELSE LET H == HouseholderReflector(A, j)
         IN  HouseholderQR(matmul(H, A), matmul(Q, H), j + 1)

\* lab_extras.qr: x = Q R, Q orthonormal, R upper triangular.
qr(x) == HouseholderQR(x, Identity(Len(x)), 1)

\* lab_extras.slogdet, first component: the sign of the determinant.
slogdet_sign(Q) == Sign(det(Q))

(***************************************************************************)
(* SymmetricPositiveDefiniteMatrices (spaces/spd.py).                      *)
(***************************************************************************)
\* The n of SymmetricPositiveDefiniteMatrices(n).
degree == 2

\* rho, doubled: 2 * ((B.range(degree) + 1) - (degree + 1) / 2).
rho2 == Tuple([d \in 1..degree |-> 2 * d - (degree + 1)])

\* The points of the space the model evaluates on: diagonal matrices
\* diag(16^c), whose Cholesky factors are diag(4^c).
SPDPoints == { Diag(<<1, 1>>), Diag(<<16, 1>>), Diag(<<16, 256>>) }

\* B.randn(key, dtype, degree, degree) for one matrix of the batch: the
\* draw is a function of the generator state s and of the position o in the
\* batch.  The lattice of draws is the signed permutation matrices.
GaussMatrix(s, o) ==
    LET shift == (s + o) % degree
        flip  == ((s + o) \div degree) % 2
        sigma == [j \in 1..degree |->
                    IF flip = 0 THEN ((j - 1 + shift) % degree) + 1
                    ELSE ((degree - j + shift) % degree) + 1]
        sgn   == [j \in 1..degree |-> IF ((s \div j) + o * j + s * o) % 2 = 0 THEN 1 ELSE -1]
    IN  Tuple([i \in 1..degree |->
            Tuple([j \in 1..degree |-> IF sigma[j] = i THEN sgn[j] ELSE 0])])

\* PhaseOfGaussian without the multiplication by the sign of the determinant.
PhaseWithoutDetSign(x) ==
    LET f           == qr(x)
        r_diag_sign == Tuple([i \in 1..Len(x) |-> Sign(diag_extract(f.R)[i])])
    IN  Tuple([i \in 1..Len(x) |->
            Tuple([j \in 1..Len(x) |-> f.Q[i][j] * r_diag_sign[i]])])

\* random_phases for one Gaussian draw x: the frame Q of x = Q R, its rows
\* multiplied by the signs of the diagonal of R, then its first column
\* multiplied by the sign of its determinant.
PhaseOfGaussian(x) ==
    LET f           == qr(x)
        r_diag_sign == Tuple([i \in 1..Len(x) |-> Sign(diag_extract(f.R)[i])])
        Q1          == Tuple([i \in 1..Len(x) |->
                           Tuple([j \in 1..Len(x) |-> f.Q[i][j] * r_diag_sign[i]])])
        sign_det    == slogdet_sign(Q1)
    IN  Tuple([i \in 1..Len(x) |-> Tuple([j \in 1..Len(x) |->
            IF j = 1 THEN Q1[i][1] * sign_det ELSE Q1[i][j]])])

\* power_function(lam, g, h), as the complex logarithm of its value:
\* [re |-> in units of (ln 2)/2, im |-> in units of pi/4].
spd_logproduct(lam, g, h) ==
    LET gc       == cholesky(g)
        gh       == matmul(gc, h)
        f        == qr(gh)
        u        == Tuple([d \in 1..degree |-> Abs(diag_extract(f.R)[d])])
        logu     == Tuple([d \in 1..degree |-> Log2(u[d])])
        logpower == Tuple([d \in 1..degree |->
                        [re |-> logu[d] * rho2[d], im |-> logu[d] * lam[d]]])
    IN  [re |-> SeqSum(Tuple([d \in 1..degree |-> logpower[d].re])),
         im |-> SeqSum(Tuple([d \in 1..degree |-> logpower[d].im]))]

\* B.exp of a complex logarithm [re, im] on the lattice: 2^(re/2) times a
\* power of the imaginary unit, as fixed-point numerators.
CosQuarter(q) == CASE q % 4 = 0 -> 1 [] q % 4 = 1 -> 0 [] q % 4 = 2 -> -1 [] q % 4 = 3 -> 0
SinQuarter(q) == CASE q % 4 = 0 -> 0 [] q % 4 = 1 -> 1 [] q % 4 = 2 -> 0 [] q % 4 = 3 -> -1

complex_exp(z) ==
    LET mag == Pow2((z.re \div 2) + FracBits)
        q   == (z.im \div 2) % 4
    IN  [re |-> mag * CosQuarter(q), im |-> mag * SinQuarter(q)]

power_function(lam, g, h) == complex_exp(spd_logproduct(lam, g, h))

(***************************************************************************)
(* Hyperbolic (spaces/hyperbolic.py): the rank-one analogue of the SPD     *)
(* primitives.  A point is <<t>>, the point at signed distance 2 t ln 2    *)
(* from the origin along a fixed geodesic; a phase is <<b>>, b = +1 or -1, *)
(* one of the two ends of that geodesic.                                   *)
(***************************************************************************)
hyperbolic_dimension == 2

\* rho of the hyperbolic space, doubled: a vector of length one.
hyp_rho2 == <<hyperbolic_dimension - 1>>

HypPoints == { <<0>>, <<1>>, <<-1>> }

HypPhase(s, o) == << IF (s + o + (s * o) \div 2) % 2 = 0 THEN 1 ELSE -1 >>

\* The hyperbolic power function, as the complex logarithm of its value.
hyp_logproduct(lam, g, h) ==
    LET logu == 2 * g[1] * h[1]
    IN  [re |-> logu * hyp_rho2[1], im |-> logu * lam[1]]

hyp_power_function(lam, g, h) == complex_exp(hyp_logproduct(lam, g, h))

(***************************************************************************)
(* Random states.  A key is [kind, val]: a pure-functional key (jax) is a  *)
(* value, and drawing from it returns a new value; a stateful generator    *)
(* (numpy, torch, tensorflow) is a reference to the live generator, whose  *)
(* state genState every draw advances in place.                            *)
(***************************************************************************)
FunctionalKey(v) == [kind |-> "functional", val |-> v]
StatefulKey == [kind |-> "stateful", val |-> 0]

\* The generator state a draw from key would read.
StateOf(key, gen) == IF key.kind = "functional" THEN key.val ELSE gen

\* One draw (B.randn and the like): the state read, the key returned and
\* the live generator's state afterwards.
randn(key, gen) ==
    IF key.kind = "functional"
    THEN [state |-> key.val, key |-> FunctionalKey(key.val + 1), gen |-> gen]
    ELSE [state |-> gen, key |-> key, gen |-> gen + 1]

\* space.random_phases(key, num): one Gaussian draw, num frames.
random_phases(variant, key, gen, num) ==
    LET r == randn(key, gen)
    IN  [state |-> r.state, key |-> r.key, gen |-> r.gen,
         out |-> Tuple([o \in 1..num |->
                    IF variant = "SPD" THEN PhaseOfGaussian(GaussMatrix(r.state, o))
                    ELSE HypPhase(r.state, o)])]

\* The kernel hyperparameters a call is given.
ParamSet == { [lengthscale |-> 1, nu |-> 1], [lengthscale |-> 2, nu |-> 3] }

\* hyperbolic_density_sample(key, (num, rank(rho)), params, dimension) and
\* spd_density_sample(key, (num,), params, degree, rho): num spectral
\* parameters, each a vector as long as rho.
density_sample(variant, key, gen, num, params) ==
    LET r   == randn(key, gen)
        len == IF variant = "SPD" THEN degree ELSE Len(hyp_rho2)
    IN  [state |-> r.state, key |-> r.key, gen |-> r.gen,
         out |-> Tuple([o \in 1..num |-> Tuple([d \in 1..len |->
                    (3 * r.state + o * d + params.lengthscale + params.nu * o) % 4])])]

\* self.space.power_function on one (lambda, point, phase) triple.
space_power_function(variant, lam, g, h) ==
    IF variant = "SPD" THEN power_function(lam, g, h)
    ELSE hyp_power_function(lam, g, h)

PointsOf(variant) == IF variant = "SPD" THEN SPDPoints ELSE HypPoints

(***************************************************************************)
(* RejectionSamplingFeatureMapHyperbolic / RejectionSamplingFeatureMapSPD  *)
(* (feature_maps/rejection_sampling.py).                                   *)
(*                                                                         *)
(* fmap is the constructed feature map, [variant, num_random_phases].  A   *)
(* call runs through pc = "random_phases", "density_sample", "power",      *)
(* "normalize", "return" and ends at "done" with ret = [key, features],     *)
(* or at "error" when an operation of the backend raised.                  *)
(* trace lists the sampling steps of the running call, each with the       *)
(* generator state it read (consumed) and the state it left (returned).    *)
(* A caller may repeat a finished call with the very same arguments:       *)
(* round counts the repetitions and prev keeps the first call's result.    *)
(***************************************************************************)
VARIABLES fmap, pc, inp, state0, genState, key, normalize, random_phases_v,
          random_lambda, p, features, ret, trace, round, prev

fmVars == <<fmap, pc, inp, state0, genState, key, normalize, random_phases_v,
            random_lambda, p, features, ret, trace, round, prev>>

\* The averaged-character and addition-theorem objects (described below).
VARIABLES chr, chrCalled, chrIn, chrOut, at, atOp, atX, atX2, atOut, catalogue

chVars == <<chr, chrCalled, chrIn, chrOut>>
atVars == <<at, atOp, atX, atX2, atOut, catalogue>>

\* A compact homogeneous space and its eigenfunctions (described below).
VARIABLES space, spEig, spOp, spOut

hsVars == <<space, spEig, spOp, spOut>>
vars == <<fmVars, chVars, atVars, hsVars>>

NoInp == [X |-> <<>>, shape |-> <<>>, params |-> [lengthscale |-> 0, nu |-> 0],
          key |-> FunctionalKey(0), normalize |-> "None"]
NoRet == [key |-> FunctionalKey(0), features |-> <<>>]

Variants == {"Hyperbolic", "SPD"}
Keys == {FunctionalKey(v) : v \in 0..MaxKey} \cup {StatefulKey}
NormalizeArgs == {"True", "False", "None"}

\* X.shape of a batch of points of the space: [N, D, D] for SPD matrices,
\* [N, D] for the vectors of the hyperbolic space.
ShapeOf(variant, X) ==
    IF variant = "SPD" THEN <<Len(X), degree, degree>> ELSE <<Len(X), Len(hyp_rho2)>>

\* Vectors, which are not points of the SPD space.
SPDVectors == { <<16, 1>>, <<1, 1>> }

\* Batches of vectors that B.expand_dims(X, axis=-3) does not turn into a
\* square matrix: an [N, D] array becomes the one N x D matrix [1, N, D],
\* which B.cholesky rejects unless N = D.
MisshapenBatches == { X \in BatchesOf(SPDVectors, MaxN) : Len(X) # degree }

\* The last two axes of B.expand_dims(X, axis=-3) are square.
SquareMatrices(shape) == shape[Len(shape)] = shape[Len(shape) - 1]

\* __init__(space, num_random_phases).
InitFM ==
    /\ fmap \in [variant : Variants, num_random_phases : 1..MaxO]
    /\ pc = "idle"
    /\ inp = NoInp
    /\ state0 = 0
    /\ genState = 0
    /\ key = FunctionalKey(0)
    /\ normalize = TRUE
    /\ random_phases_v = <<>>
    /\ random_lambda = <<>>
    /\ p = <<>>
    /\ features = <<>>
    /\ ret = NoRet
    /\ trace = <<>>
    /\ round = 1
    /\ prev = NoRet

\* Entry of __call__(X, params, key=k, normalize=nrm), X an array of the
\* given shape: "if normalize is None: normalize = True".  Nothing at the
\* entry looks at the shape of X.
Enter(X, shape, params, k, nrm) ==
    /\ StateOf(k, genState) + 2 <= MaxGen
    /\ inp' = [X |-> X, shape |-> shape, params |-> params, key |-> k, normalize |-> nrm]
    /\ state0' = StateOf(k, genState)
    /\ key' = k
    /\ normalize' = IF nrm = "None" THEN TRUE ELSE (nrm = "True")
    /\ random_phases_v' = <<>>
    /\ random_lambda' = <<>>
    /\ p' = <<>>
    /\ features' = <<>>
    /\ ret' = NoRet
    /\ trace' = <<>>
    /\ pc' = "random_phases"
    /\ UNCHANGED <<fmap, genState>>
    /\ UNCHANGED <<chVars, atVars, hsVars>>

Call ==
    /\ pc = "idle"
    /\ \E X \in BatchesOf(PointsOf(fmap.variant), MaxN), params \in ParamSet,
          k \in Keys, nrm \in NormalizeArgs :
            Enter(X, ShapeOf(fmap.variant, X), params, k, nrm)
    /\ round' = 1
    /\ prev' = NoRet

\* A call of the SPD feature map on a batch of vectors, an [N, D] array.
CallMisshapen ==
    /\ pc = "idle"
    /\ fmap.variant = "SPD"
    /\ \E X \in MisshapenBatches, params \in ParamSet, k \in Keys, nrm \in NormalizeArgs :
            Enter(X, <<Len(X), degree>>, params, k, nrm)
    /\ round' = 1
    /\ prev' = NoRet

\* DrawPhases drawing from the live generator instead of the key it was given.
DrawPhasesGlobal ==
    /\ pc = "random_phases"
    /\ LET r == random_phases(fmap.variant, StatefulKey, genState, fmap.num_random_phases)
       IN  /\ key' = randn(key, genState).key
           /\ genState' = r.gen
           /\ random_phases_v' = r.out
           /\ trace' = Append(trace, [op |-> "random_phases", consumed |-> StateOf(key, genState),
                                      returned |-> StateOf(randn(key, genState).key, r.gen)])
    /\ pc' = "density_sample"
    /\ UNCHANGED <<fmap, inp, state0, normalize, random_lambda, p, features, ret,
                   round, prev>>
    /\ UNCHANGED <<chVars, atVars, hsVars>>

\* key, random_phases = self.space.random_phases(key, self.num_random_phases)
DrawPhases ==
    /\ pc = "random_phases"
    /\ LET r == random_phases(fmap.variant, key, genState, fmap.num_random_phases)
       IN  /\ key' = r.key
           /\ genState' = r.gen
           /\ random_phases_v' = r.out
           /\ trace' = Append(trace, [op |-> "random_phases", consumed |-> r.state,
                                      returned |-> StateOf(r.key, r.gen)])
    /\ pc' = "density_sample"
    /\ UNCHANGED <<fmap, inp, state0, normalize, random_lambda, p, features, ret,
                   round, prev>>
    /\ UNCHANGED <<chVars, atVars, hsVars>>

\* DrawLambda reusing the caller's key instead of the one random_phases returned.
DrawLambdaStale ==
    /\ pc = "density_sample"
    /\ LET r == density_sample(fmap.variant, inp.key, genState, fmap.num_random_phases,
                               inp.params)
       IN  /\ key' = r.key
           /\ genState' = r.gen
           /\ random_lambda' = r.out
           /\ trace' = Append(trace, [op |-> "density_sample", consumed |-> r.state,
                                      returned |-> StateOf(r.key, r.gen)])
    /\ pc' = "power"
    /\ UNCHANGED <<fmap, inp, state0, normalize, random_phases_v, p, features, ret,
                   round, prev>>
    /\ UNCHANGED <<chVars, atVars, hsVars>>

\* key, random_lambda = hyperbolic_density_sample(key, ...) / spd_density_sample(key, ...)
DrawLambda ==
    /\ pc = "density_sample"
    /\ LET r == density_sample(fmap.variant, key, genState, fmap.num_random_phases,
                               inp.params)
       IN  /\ key' = r.key
           /\ genState' = r.gen
           /\ random_lambda' = r.out
           /\ trace' = Append(trace, [op |-> "density_sample", consumed |-> r.state,
                                      returned |-> StateOf(r.key, r.gen)])
    /\ pc' = "power"
    /\ UNCHANGED <<fmap, inp, state0, normalize, random_phases_v, p, features, ret,
                   round, prev>>
    /\ UNCHANGED <<chVars, atVars, hsVars>>

\* p = power_function(random_lambda_b, X_b, random_phases_b): [1, O, ..] and
\* [N, 1, ..] broadcast to [N, O].
BroadcastPower(variant, lam_b, X_b, phases_b) ==
    Tuple([n \in 1..Len(X_b) |-> Tuple([o \in 1..Len(phases_b) |->
        space_power_function(variant, lam_b[o], X_b[n], phases_b[o])])])

\* A feature row at raw scale: fixed-point numerators over 2^FracBits.
RawRow(num) == [num |-> num, den2 |-> Pow2(2 * FracBits)]

\* ConcatRealImag with the two halves exchanged.
ConcatImagReal(pp) ==
    Tuple([n \in 1..Len(pp) |->
        RawRow([c \in 1..Len(pp[n]) |-> pp[n][c].im] \o [c \in 1..Len(pp[n]) |-> pp[n][c].re])])

\* The shape of X is one power_function accepts.
WellShaped(variant, shape) == variant = "SPD" => SquareMatrices(shape)

\* B.concat(B.real(p), B.imag(p), axis=-1)
ConcatRealImag(pp) ==
    Tuple([n \in 1..Len(pp) |->
        RawRow([c \in 1..Len(pp[n]) |-> pp[n][c].re] \o [c \in 1..Len(pp[n]) |-> pp[n][c].im])])

\* Evaluate returning an empty feature matrix where B.cholesky would raise.
EvaluateSilent ==
    /\ pc = "power"
    /\ p' = IF WellShaped(fmap.variant, inp.shape)
            THEN BroadcastPower(fmap.variant, random_lambda, inp.X, random_phases_v)
            ELSE <<>>
    /\ features' = ConcatRealImag(p')
    /\ pc' = "normalize"
    /\ UNCHANGED <<fmap, inp, state0, genState, key, normalize, random_phases_v,
                   random_lambda, ret, trace, round, prev>>
    /\ UNCHANGED <<chVars, atVars, hsVars>>

\* The broadcast, self.space.power_function and the concatenation.  The
\* first operation that depends on the shape of X is B.cholesky inside
\* power_function, which raises on matrices that are not square.
Evaluate ==
    /\ pc = "power"
    /\ IF WellShaped(fmap.variant, inp.shape)
       THEN /\ p' = BroadcastPower(fmap.variant, random_lambda, inp.X, random_phases_v)
            /\ features' = ConcatRealImag(p')
            /\ pc' = "normalize"
       ELSE /\ p' = p
            /\ features' = features
            /\ pc' = "error"
    /\ UNCHANGED <<fmap, inp, state0, genState, key, normalize, random_phases_v,
                   random_lambda, ret, trace, round, prev>>
    /\ UNCHANGED <<chVars, atVars, hsVars>>

\* NormalizeRows with the sum of squares taken over the whole matrix.
NormalizeWhole(f) ==
    Tuple([n \in 1..Len(f) |->
        [num |-> f[n].num,
         den2 |-> SeqSum(Tuple([m \in 1..Len(f) |-> SumSq(f[m].num)]))]])

\* normalizer = B.sqrt(B.sum(features**2, axis=-1, squeeze=False));
\* features = features / normalizer.  The squared normalizer of a row
\* [num, den2] is SumSq(num)/den2, and dividing by its root leaves
\* num[k]/sqrt(SumSq(num)).
NormalizeRows(f) ==
    Tuple([n \in 1..Len(f) |-> [num |-> f[n].num, den2 |-> SumSq(f[n].num)]])

Normalize ==
    /\ pc = "normalize"
    /\ features' = IF normalize THEN NormalizeRows(features) ELSE features
    /\ pc' = "return"
    /\ UNCHANGED <<fmap, inp, state0, genState, key, normalize, random_phases_v,
                   random_lambda, p, ret, trace, round, prev>>
    /\ UNCHANGED <<chVars, atVars, hsVars>>

\* return key, features
Return ==
    /\ pc = "return"
    /\ ret' = [key |-> key, features |-> features]
    /\ pc' = "done"
    /\ UNCHANGED <<fmap, inp, state0, genState, key, normalize, random_phases_v,
                   random_lambda, p, features, trace, round, prev>>
    /\ UNCHANGED <<chVars, atVars, hsVars>>

\* The caller calls again with the same X, params, key and normalize.
Repeat ==
    /\ pc = "done"
    /\ round = 1
    /\ Enter(inp.X, inp.shape, inp.params, inp.key, inp.normalize)
    /\ round' = 2
    /\ prev' = ret

\* The caller drops the result, or handles the error.
Finish ==
    /\ pc \in {"done", "error"}
    /\ pc' = "idle"
    /\ inp' = NoInp
    /\ state0' = 0
    /\ key' = FunctionalKey(0)
    /\ normalize' = TRUE
    /\ random_phases_v' = <<>>
    /\ random_lambda' = <<>>
    /\ p' = <<>>
    /\ features' = <<>>
    /\ ret' = NoRet
    /\ trace' = <<>>
    /\ round' = 1
    /\ prev' = NoRet
    /\ UNCHANGED <<fmap, genState>>
    /\ UNCHANGED <<chVars, atVars, hsVars>>

NextFM ==
    \/ Call
    \/ CallMisshapen
    \/ DrawPhases
    \/ DrawLambda
    \/ Evaluate
    \/ Normalize
    \/ Return
    \/ Repeat
    \/ Finish

(***************************************************************************)
(* The ambient group G and its eigenfunctions (spaces/lie_groups.py,       *)
(* spaces/so.py): G = SO(3), on the lattice of the 24 rotations with       *)
(* integer entries.  The torus representative of a rotation is its angle,  *)
(* kept in units of pi/6; on the lattice the angles are 0, 3, 4 and 6.     *)
(* A rational number is [num, den].                                        *)
(***************************************************************************)
\* M.G.n: group elements are G_n x G_n matrices.
G_n == 3

RECURSIVE Flatten(_)
\* reshape(-1, ...) of a two-level batch: row-major order.
Flatten(M) == IF M = <<>> THEN <<>> ELSE M[1] \o Flatten(Tail(M))

\* The inverse of a rotation.
G_inverse(g) == transpose(g)

\* The group's difference is outside this code and the order in which it
\* composes its arguments is not fixed by what is known of it: the relative
\* element of a and b is a^-1 b ("left") for one group and a b^-1 ("right")
\* for another.
Conventions == {"left", "right"}

\* The relative element of a and b.
Relative(convention, a, b) ==
    IF convention = "left" THEN matmul(G_inverse(a), b) ELSE matmul(a, G_inverse(b))

\* G_eigenfunctions._difference(A, B): the pairwise [Len(A), Len(B)] batch of
\* the relative elements of A[i] and B[j].
G_difference(convention, A, B) ==
    Tuple([i \in 1..Len(A) |-> Tuple([j \in 1..Len(B) |->
        Relative(convention, A[i], B[j])])])

\* M.G.dim and M.H.dim: the dimensions of SO(3) and of SO(2).
G_dim == 3
H_dim == 1

\* The group M.G: its matrix size, its dimension and its difference.
MatrixLieGroup(convention) == [n |-> G_n, dim |-> G_dim, difference |-> convention]

Groups == {MatrixLieGroup(convention) : convention \in Conventions}

Trace(g) == SeqSum(diag_extract(g))

\* G_eigenfunctions._torus_representative on one element: SO(3)'s is fixed
\* by the trace, 1 + 2 cos(angle).
TorusRepresentative(g) ==
    CASE Trace(g) = 3  -> <<0>>
      [] Trace(g) = 1  -> <<3>>
      [] Trace(g) = 0  -> <<4>>
      [] Trace(g) = -1 -> <<6>>

G_torus_representative(batch) ==
    Tuple([k \in 1..Len(batch) |-> TorusRepresentative(batch[k])])

\* 2 cos(m pi / 6), for the m that are multiples of 3 or of 4.
TwoCos6(m) ==
    CASE m % 12 = 0 -> 2
      [] m % 12 = 3 -> 0
      [] m % 12 = 4 -> -1
      [] m % 12 = 6 -> -2
      [] m % 12 = 8 -> -1
      [] m % 12 = 9 -> 0

\* The character of the representation of signature <<l>> at a torus
\* representative: the sum of exp(i k angle) over the weights k = -l..l.
LieGroupCharacter(signature, gamma) ==
    1 + SeqSum(Tuple([k \in 1..signature[1] |-> TwoCos6(k * gamma[1])]))

\* M.G.get_eigenfunctions(num_levels): the first num_levels levels of SO(3),
\* in the order of non-decreasing eigenvalue.
G_get_eigenfunctions(num_levels) ==
    [signatures  |-> Tuple([l \in 1..num_levels |-> <<l - 1>>]),
     eigenvalues |-> Tuple([l \in 1..num_levels |-> (l - 1) * l]),
     dimensions  |-> Tuple([l \in 1..num_levels |-> 2 * (l - 1) + 1])]

(***************************************************************************)
(* A concrete CompactHomogeneousSpace M = G/H: the sphere SO(3)/SO(2) as   *)
(* the Stiefel manifold V(1, 3).  A point of M is a 3 x 1 matrix, the      *)
(* first column of a rotation; H = SO(2), on the lattice of its four       *)
(* quarter turns, is embedded as the rotations that fix the first axis.    *)
(***************************************************************************)
Rot2(k) ==
    <<<<CosQuarter(k), -SinQuarter(k)>>, <<SinQuarter(k), CosQuarter(k)>>>>

StabilizerPoints == {Rot2(k) : k \in 0..1}

\* Every element of the stabilizer lattice once.
StabilizerLattice == <<Rot2(0), Rot2(1), Rot2(2), Rot2(3)>>

\* The batches of stabilizer samples a space is constructed with.
SampleBatches == BatchesOf(StabilizerPoints, MaxS) \cup {StabilizerLattice}

\* embed_stabilizer(h): [N, 2, 2] elements of H as [N, 3, 3] elements of G.
embed_stabilizer(h) ==
    Tuple([k \in 1..Len(h) |->
        Tuple([i \in 1..G_n |-> Tuple([j \in 1..G_n |->
            IF i = 1 \/ j = 1 THEN (IF i = j THEN 1 ELSE 0) ELSE h[k][i - 1][j - 1]])])])

\* project_to_manifold(g): the first column of each element.
project_to_manifold(g) ==
    Tuple([k \in 1..Len(g) |-> Tuple([i \in 1..G_n |-> <<g[k][i][1]>>])])

\* The lift of one point x = s e_k: the rotation with columns s e_k,
\* s e_(k+1), e_(k+2), indices taken cyclically.
LiftPoint(x) ==
    LET k  == CHOOSE i \in 1..G_n : x[i][1] # 0
        sg == x[k][1]
        k1 == (k % G_n) + 1
        k2 == (k1 % G_n) + 1
    IN  Tuple([i \in 1..G_n |->
            <<x[i][1], IF i = k1 THEN sg ELSE 0, IF i = k2 THEN 1 ELSE 0>>])

\* embed_manifold(x): an element of G over each point.
embed_manifold(x) == Tuple([k \in 1..Len(x) |-> LiftPoint(x[k])])

ManifoldPoints == { <<<<1>>, <<0>>, <<0>>>>, <<<<0>>, <<1>>, <<0>>>> }

\* _compute_projected_character_value_at_e(signature): the dimension of the
\* subspace of the representation that H leaves invariant, which is the
\* number of its weights -l..l that are zero.
compute_projected_character_value_at_e(signature) ==
    Cardinality({m \in (-signature[1])..signature[1] : m = 0})

(***************************************************************************)
(* CompactHomogeneousSpace (spaces/homogeneous_spaces.py) and the classes  *)
(* derived from it.                                                        *)
(*                                                                         *)
(* A derived class is described by what it does with each of the three     *)
(* hooks: "abstract" when it does not define the hook and so inherits the  *)
(* method decorated with abc.abstractmethod, "delegating" when it defines  *)
(* the hook with a body that only runs the inherited one, which raises     *)
(* NotImplementedError, and "concrete" when it defines the hook of the     *)
(* sphere above.                                                           *)
(***************************************************************************)
Hooks == {"project_to_manifold", "embed_manifold", "embed_stabilizer"}

HookKinds == {"abstract", "delegating", "concrete"}

\* The classes derived from CompactHomogeneousSpace.
SpaceClasses == [Hooks -> HookKinds]

\* The class of the sphere, with its three hooks.
ConcreteClass == [h \in Hooks |-> "concrete"]

\* cls.__abstractmethods__: the hooks still decorated with abc.abstractmethod.
AbstractMethods(cls) == {h \in Hooks : cls[h] = "abstract"}

\* The check that lets every class be instantiated.
InstantiableAlways(cls) == TRUE

\* The check made when a class with abstract methods is instantiated.
Instantiable(cls) == AbstractMethods(cls) = {}

\* What an operation raised, and what it returned.
Raised(error) == [ok |-> FALSE, error |-> error]

Returned(value) == [ok |-> TRUE, value |-> value]

\* __init__(G, H, samples_H, average_order)
CompactHomogeneousSpace(cls, G, samples_H, average_order) ==
    [state         |-> "constructed",
     cls           |-> cls,
     G             |-> G,
     samples_H     |-> samples_H,
     dim           |-> G.dim - H_dim,
     average_order |-> average_order]

(***************************************************************************)
(* AveragedLieGroupCharacter (spaces/homogeneous_spaces.py).               *)
(* An averaged character is [average_order, signature]; a call returns     *)
(* [ok, value]: ok = FALSE is the error B.reshape raises, and value is the *)
(* tuple of the averages, each a rational [num, den].                      *)
(***************************************************************************)
\* __init__(average_order, character)
AveragedLieGroupCharacter(average_order, signature) ==
    [average_order |-> average_order, signature |-> signature]

\* B.reshape(flat, a, -1, c): row-major, the middle axis inferred.
Reshape3(flat, a, c) ==
    LET b == Len(flat) \div (a * c)
    IN  Tuple([u \in 1..a |-> Tuple([g \in 1..b |-> Tuple([v \in 1..c |->
            flat[(u - 1) * b * c + (g - 1) * c + v]])])])

\* The contraction keeping the first axis instead of the middle one.
EinsumUgvToU(t) ==
    Tuple([u \in 1..Len(t) |->
        SeqSum(Tuple([g \in 1..Len(t[u]) |-> SeqSum(t[u][g])]))])

\* einsum("ugv->g", t)
EinsumUgvToG(t) ==
    Tuple([g \in 1..Len(t[1]) |->
        SeqSum(Tuple([u \in 1..Len(t) |-> SeqSum(t[u][g])]))])

ReshapeError == [ok |-> FALSE, value |-> <<>>]

\* The call dropping the rows that do not fill a whole [S, ., S] block.
AveragedCharacterCallTruncating(chi, gammas) ==
    LET order  == chi.average_order
        n      == Len(gammas) \div (order * order)
        values == Tuple([k \in 1..(n * order * order) |->
                      LieGroupCharacter(chi.signature, gammas[k])])
        summed == IF n = 0 THEN <<>> ELSE EinsumUgvToG(Reshape3(values, order, order))
    IN  [ok |-> TRUE,
         value |-> Tuple([g \in 1..Len(summed) |->
                      [num |-> summed[g], den |-> order * order]])]

\* The call dividing by the average order once, as for a one-sided average.
AveragedCharacterCallOneSided(chi, gammas) ==
    LET values == Tuple([k \in 1..Len(gammas) |-> LieGroupCharacter(chi.signature, gammas[k])])
        order  == chi.average_order
    IN  IF Len(values) % (order * order) # 0 THEN ReshapeError
        ELSE LET summed == EinsumUgvToG(Reshape3(values, order, order))
             IN  [ok |-> TRUE,
                  value |-> Tuple([g \in 1..Len(summed) |->
                               [num |-> summed[g], den |-> order]])]

\* __call__(gammas_h1_x_h2)
AveragedCharacterCall(chi, gammas) ==
    LET values == Tuple([k \in 1..Len(gammas) |-> LieGroupCharacter(chi.signature, gammas[k])])
        order  == chi.average_order
    IN  IF Len(values) % (order * order) # 0 THEN ReshapeError
        ELSE LET character_h1_x_h2 == Reshape3(values, order, order)
                 summed            == EinsumUgvToG(character_h1_x_h2)
             IN  [ok |-> TRUE,
                  value |-> Tuple([g \in 1..Len(summed) |->
                               [num |-> summed[g], den |-> order * order]])]

(***************************************************************************)
(* AveragingAdditionTheorem (spaces/homogeneous_spaces.py).                *)
(***************************************************************************)
\* __init__ keeping the arrays of G_eigenfunctions themselves instead of
\* copies of them.
AveragingAdditionTheoremSharing(M, num_levels, samples_H) ==
    LET average_order    == Len(samples_H)
        G_eigenfunctions == G_get_eigenfunctions(num_levels)
    IN  [M             |-> M,
         dim           |-> M.G.dim - H_dim,
         G_difference  |-> M.G.difference,
         samples_H     |-> embed_stabilizer(samples_H),
         average_order |-> average_order,
         signatures    |-> G_eigenfunctions.signatures,
         eigenvalues   |-> G_eigenfunctions.eigenvalues,
         dimensions    |-> G_eigenfunctions.dimensions,
         shares        |-> {"signatures", "eigenvalues", "dimensions"},
         characters    |-> Tuple([l \in 1..num_levels |->
                              AveragedLieGroupCharacter(average_order,
                                                        G_eigenfunctions.signatures[l])]),
         num_levels    |-> num_levels]

\* __init__ taking the average order from the space instead of from the
\* samples.
AveragingAdditionTheoremSpaceOrder(M, num_levels, samples_H) ==
    LET average_order    == M.average_order
        G_eigenfunctions == G_get_eigenfunctions(num_levels)
    IN  [M             |-> M,
         dim           |-> M.G.dim - H_dim,
         G_difference  |-> M.G.difference,
         samples_H     |-> embed_stabilizer(samples_H),
         average_order |-> average_order,
         signatures    |-> G_eigenfunctions.signatures,
         eigenvalues   |-> G_eigenfunctions.eigenvalues,
         dimensions    |-> G_eigenfunctions.dimensions,
         shares        |-> {},
         characters    |-> Tuple([l \in 1..num_levels |->
                              AveragedLieGroupCharacter(average_order,
                                                        G_eigenfunctions.signatures[l])]),
         num_levels    |-> num_levels]

\* __init__(M, num_levels, samples_H).  The attributes it sets are the
\* fields of the record; shares names the per-level arrays that are the very
\* arrays of G_eigenfunctions, none because each is copied.
AveragingAdditionTheorem(M, num_levels, samples_H) ==
    LET average_order    == Len(samples_H)
        G_eigenfunctions == G_get_eigenfunctions(num_levels)
    IN  [M             |-> M,
         dim           |-> M.G.dim - H_dim,
         G_difference  |-> M.G.difference,
         samples_H     |-> embed_stabilizer(samples_H),
         average_order |-> average_order,
         signatures    |-> G_eigenfunctions.signatures,
         eigenvalues   |-> G_eigenfunctions.eigenvalues,
         dimensions    |-> G_eigenfunctions.dimensions,
         shares        |-> {},
         characters    |-> Tuple([l \in 1..num_levels |->
                              AveragedLieGroupCharacter(average_order,
                                                        G_eigenfunctions.signatures[l])]),
         num_levels    |-> num_levels]

\* num_levels
num_levels(self) ==
    IF "num_levels" \in DOMAIN self THEN Returned(self.num_levels)
    ELSE Raised("AttributeError")

\* num_eigenfunctions: reads the attribute _num_eigenfunctions.
num_eigenfunctions(self) ==
    IF "num_eigenfunctions" \in DOMAIN self THEN Returned(self.num_eigenfunctions)
    ELSE Raised("AttributeError")

\* num_eigenfunctions_per_level: [1] * self.num_levels
num_eigenfunctions_per_level(self) ==
    LET L == num_levels(self)
    IN  IF L.ok THEN Returned(Tuple([l \in 1..L.value |-> 1])) ELSE L

\* _difference(X, X2): [N1, N2] elements of G.
difference(self, X, X2) ==
    LET g  == embed_manifold(X)
        g2 == embed_manifold(X2)
    IN  G_difference(self.G_difference, g, g2)

\* The reshape reading the flat values in column-major order.
LevelValuesTransposed(dimension, chi_values, N1, N2) ==
    Tuple([i \in 1..N1 |-> Tuple([j \in 1..N2 |->
        [num |-> dimension * chi_values[(j - 1) * N1 + i].num,
         den |-> chi_values[(j - 1) * N1 + i].den]])])

\* (degree * chi(torus_repr)[..., None]).reshape(N1, N2, 1), without the
\* trailing axis: entry (i, j) of the row-major [N1, N2] view.
LevelValues(dimension, chi_values, N1, N2) ==
    Tuple([i \in 1..N1 |-> Tuple([j \in 1..N2 |->
        [num |-> dimension * chi_values[(i - 1) * N2 + j].num,
         den |-> chi_values[(i - 1) * N2 + j].den]])])

\* _addition_theorem with the first convolution applied to the inverted
\* samples, which averages over the products of two samples on one side of
\* the difference.
addition_theorem_same_side(self, X, X2) ==
    LET diff       == Flatten(difference(self, X, X2))
        inverted   == Tuple([k \in 1..Len(self.samples_H) |-> G_inverse(self.samples_H[k])])
        diff_h2    == Flatten(G_difference(self.G_difference, diff, inverted))
        h1_diff_h2 == Flatten(G_difference(self.G_difference, self.samples_H, diff_h2))
        torus_repr == G_torus_representative(h1_diff_h2)
        chis       == Tuple([l \in 1..Len(self.characters) |->
                          AveragedCharacterCall(self.characters[l], torus_repr)])
        values     == Tuple([l \in 1..Len(self.characters) |->
                          LevelValues(self.dimensions[l], chis[l].value, Len(X), Len(X2))])
    IN  IF \E l \in 1..Len(chis) : ~chis[l].ok THEN ReshapeError
        ELSE [ok |-> TRUE,
              value |-> Tuple([i \in 1..Len(X) |-> Tuple([j \in 1..Len(X2) |->
                           Tuple([l \in 1..Len(values) |-> values[l][i][j]])])])]

\* _addition_theorem(X, X2): [ok, value], value the [N1, N2, L] tensor.
addition_theorem(self, X, X2) ==
    LET diff       == Flatten(difference(self, X, X2))
        diff_h2    == Flatten(G_difference(self.G_difference, diff, self.samples_H))
        h1_diff_h2 == Flatten(G_difference(self.G_difference, self.samples_H, diff_h2))
        torus_repr == G_torus_representative(h1_diff_h2)
        chis       == Tuple([l \in 1..Len(self.characters) |->
                          AveragedCharacterCall(self.characters[l], torus_repr)])
        values     == Tuple([l \in 1..Len(self.characters) |->
                          LevelValues(self.dimensions[l], chis[l].value, Len(X), Len(X2))])
    IN  IF \E l \in 1..Len(chis) : ~chis[l].ok THEN ReshapeError
        ELSE [ok |-> TRUE,
              value |-> Tuple([i \in 1..Len(X) |-> Tuple([j \in 1..Len(X2) |->
                           Tuple([l \in 1..Len(values) |-> values[l][i][j]])])])]

\* _addition_theorem_diag without the factor degree.
addition_theorem_diag_no_degree(self, X) ==
    Tuple([n \in 1..Len(X) |-> Tuple([l \in 1..Len(self.signatures) |->
        compute_projected_character_value_at_e(self.signatures[l])])])

\* _addition_theorem_diag(X): the [N, L] tensor.
addition_theorem_diag(self, X) ==
    LET ones   == Tuple([n \in 1..Len(X) |-> <<1>>])
        values == Tuple([l \in 1..Len(self.signatures) |->
                      Tuple([n \in 1..Len(ones) |->
                          self.dimensions[l]
                          * compute_projected_character_value_at_e(self.signatures[l])
                          * ones[n][1]])])
    IN  Tuple([n \in 1..Len(X) |-> Tuple([l \in 1..Len(values) |-> values[l][n]])])

(***************************************************************************)
(* The state of the averaged-character and addition-theorem objects.       *)
(*                                                                         *)
(* chr is a constructed AveragedLieGroupCharacter, chrIn the batch of      *)
(* torus representatives of its last call and chrOut what the call         *)
(* returned.  at is a constructed AveragingAdditionTheorem; atOp, atX,     *)
(* atX2 and atOut are its last operation, that operation's arguments and   *)
(* its result.                                                             *)
(***************************************************************************)

\* The torus representatives the averaged character is called on.
GammaPoints == { <<0>>, <<4>> }

InitChar ==
    /\ chr \in {AveragedLieGroupCharacter(order, <<l - 1>>) : order \in 1..MaxS, l \in 1..MaxL}
    /\ chrCalled = FALSE
    /\ chrIn = <<>>
    /\ chrOut = ReshapeError

\* chr(gammas)
CharacterCall ==
    /\ chrCalled = FALSE
    /\ \E gammas \in BatchesOf(GammaPoints, MaxRows) :
          /\ chrIn' = gammas
          /\ chrOut' = AveragedCharacterCall(chr, gammas)
    /\ chrCalled' = TRUE
    /\ UNCHANGED chr
    /\ UNCHANGED <<fmVars, atVars, hsVars>>

\* The caller drops the result of the call.
CharacterForget ==
    /\ chrCalled = TRUE
    /\ chrCalled' = FALSE
    /\ chrIn' = <<>>
    /\ chrOut' = ReshapeError
    /\ UNCHANGED chr
    /\ UNCHANGED <<fmVars, atVars, hsVars>>

\* The numbers of levels an addition theorem is constructed with.
LevelCounts == {1, MaxL}

InitAT ==
    /\ at \in {AveragingAdditionTheorem(
                     CompactHomogeneousSpace(ConcreteClass, G, samples, Len(samples)),
                     L, samples) :
                 G \in Groups, L \in LevelCounts, samples \in SampleBatches}
    /\ atOp = "none"
    /\ atX = <<>>
    /\ atX2 = <<>>
    /\ atOut = ReshapeError
    /\ catalogue = G_get_eigenfunctions(at.num_levels)

\* An addition theorem of MaxL levels, for each group and each batch of
\* samples.
InitATDeep ==
    /\ at \in {AveragingAdditionTheorem(
                     CompactHomogeneousSpace(ConcreteClass, G, samples, Len(samples)),
                     MaxL, samples) :
                 G \in Groups, samples \in SampleBatches}
    /\ atOp = "none"
    /\ atX = <<>>
    /\ atX2 = <<>>
    /\ atOut = ReshapeError
    /\ catalogue = G_get_eigenfunctions(at.num_levels)

\* The first S elements of the stabilizer lattice, for each S up to MaxS.
SamplePrefixes == {SubSeq(StabilizerLattice, 1, S) : S \in 1..MaxS}

\* An addition theorem over a space whose average_order is given apart from
\* its samples, as CompactHomogeneousSpace.__init__ takes the two.
InitATOfSpace ==
    /\ at \in {AveragingAdditionTheorem(
                     CompactHomogeneousSpace(ConcreteClass, G, samples, average_order),
                     L, samples) :
                 G \in Groups, L \in LevelCounts, samples \in SamplePrefixes,
                 average_order \in {1, MaxS}}
    /\ atOp = "none"
    /\ atX = <<>>
    /\ atX2 = <<>>
    /\ atOut = ReshapeError
    /\ catalogue = G_get_eigenfunctions(at.num_levels)

\* at._addition_theorem(X, X2)
AdditionTheorem ==
    /\ atOp = "none"
    /\ \E X \in BatchesOf(ManifoldPoints, MaxN), X2 \in BatchesOf(ManifoldPoints, MaxN) :
          /\ atX' = X
          /\ atX2' = X2
          /\ atOut' = addition_theorem(at, X, X2)
    /\ atOp' = "addition_theorem"
    /\ UNCHANGED <<at, catalogue>>
    /\ UNCHANGED <<fmVars, chVars, hsVars>>

\* at._addition_theorem_diag(X)
AdditionTheoremDiag ==
    /\ atOp = "none"
    /\ \E X \in BatchesOf(ManifoldPoints, MaxN) :
          /\ atX' = X
          /\ atOut' = [ok |-> TRUE, value |-> addition_theorem_diag(at, X)]
    /\ atX2' = <<>>
    /\ atOp' = "addition_theorem_diag"
    /\ UNCHANGED <<at, catalogue>>
    /\ UNCHANGED <<fmVars, chVars, hsVars>>

\* The caller drops the result of the operation.
AdditionForget ==
    /\ atOp # "none"
    /\ atOp' = "none"
    /\ atX' = <<>>
    /\ atX2' = <<>>
    /\ atOut' = ReshapeError
    /\ UNCHANGED <<at, catalogue>>
    /\ UNCHANGED <<fmVars, chVars, hsVars>>

\* at.num_levels
NumLevels ==
    /\ atOp = "none"
    /\ atOp' = "num_levels"
    /\ atOut' = num_levels(at)
    /\ UNCHANGED <<at, atX, atX2, catalogue>>
    /\ UNCHANGED <<fmVars, chVars, hsVars>>

\* at.num_eigenfunctions
NumEigenfunctions ==
    /\ atOp = "none"
    /\ atOp' = "num_eigenfunctions"
    /\ atOut' = num_eigenfunctions(at)
    /\ UNCHANGED <<at, atX, atX2, catalogue>>
    /\ UNCHANGED <<fmVars, chVars, hsVars>>

\* at.num_eigenfunctions_per_level
NumEigenfunctionsPerLevel ==
    /\ atOp = "none"
    /\ atOp' = "num_eigenfunctions_per_level"
    /\ atOut' = num_eigenfunctions_per_level(at)
    /\ UNCHANGED <<at, atX, atX2, catalogue>>
    /\ UNCHANGED <<fmVars, chVars, hsVars>>

\* array[:] = value
Fill(array, value) == Tuple([l \in 1..Len(array) |-> value])

\* The values an in-place write puts into each array of the catalogue.
Overwritten == [signatures |-> <<MaxL>>, eigenvalues |-> -1, dimensions |-> 0]

\* The object as it reads after the arrays of the catalogue have become
\* cat: an array it shares with the catalogue reads as the catalogue's.
WriteThrough(self, cat) ==
    [self EXCEPT
        !.signatures  = IF "signatures" \in self.shares THEN cat.signatures ELSE @,
        !.eigenvalues = IF "eigenvalues" \in self.shares THEN cat.eigenvalues ELSE @,
        !.dimensions  = IF "dimensions" \in self.shares THEN cat.dimensions ELSE @]

\* Code outside the object writes, once, into one of the arrays of
\* at.G_eigenfunctions, the catalogue of the group.
MutateCatalogue ==
    /\ atOp = "none"
    /\ catalogue = G_get_eigenfunctions(at.num_levels)
    /\ \E name \in DOMAIN Overwritten :
          /\ catalogue' = [catalogue EXCEPT ![name] = Fill(@, Overwritten[name])]
    /\ at' = WriteThrough(at, catalogue')
    /\ UNCHANGED <<atOp, atX, atX2, atOut>>
    /\ UNCHANGED <<fmVars, chVars, hsVars>>

(***************************************************************************)
(* The state of a compact homogeneous space.                               *)
(*                                                                         *)
(* space is [state, cls] before the class is instantiated (state =         *)
(* "class") and when the instantiation raised (state = "TypeError"), and   *)
(* the constructed object otherwise.  spEig is the eigenfunctions object   *)
(* made for the space, spOp the last operation on the space or on its      *)
(* eigenfunctions and spOut what that operation returned or raised.        *)
(***************************************************************************)
\* A call of hook h of space M, result standing for what the hook of the
\* sphere returns.
CallHook(M, h, result) ==
    IF M.cls[h] = "concrete" THEN Returned(result) ELSE Raised("NotImplementedError")

NoEig == [state |-> "none"]

\* The elements of G that M.G.random returns.
GPoints == {LiftPoint(x) : x \in ManifoldPoints}

InitSpace ==
    /\ space \in {[state |-> "class", cls |-> cls] : cls \in SpaceClasses}
    /\ spEig = NoEig
    /\ spOp = "none"
    /\ spOut = Returned(<<>>)

\* cls(G, H, samples_H, average_order)
Construct ==
    /\ space.state = "class"
    /\ \E G \in Groups, samples_H \in SampleBatches, average_order \in 1..MaxS :
          space' = IF Instantiable(space.cls)
                   THEN CompactHomogeneousSpace(space.cls, G, samples_H, average_order)
                   ELSE [state |-> "TypeError", cls |-> space.cls]
    /\ UNCHANGED <<spEig, spOp, spOut>>
    /\ UNCHANGED <<fmVars, chVars, atVars>>

\* space.random(key, number), raw_samples being what self.G.random returned.
Random ==
    /\ space.state = "constructed"
    /\ spOp = "none"
    /\ \E raw_samples \in BatchesOf(GPoints, MaxN) :
          spOut' = CallHook(space, "project_to_manifold", project_to_manifold(raw_samples))
    /\ spOp' = "random"
    /\ UNCHANGED <<space, spEig>>
    /\ UNCHANGED <<fmVars, chVars, atVars>>

\* AveragingAdditionTheorem(space, num_levels, space.samples_H)
MakeEigenfunctions ==
    /\ space.state = "constructed"
    /\ spOp = "none"
    /\ spEig.state = "none"
    /\ \E L \in LevelCounts :
          LET embedded == CallHook(space, "embed_stabilizer", embed_stabilizer(space.samples_H))
          IN  /\ spOut' = embedded
              /\ spEig' = IF embedded.ok
                          THEN [state |-> "constructed",
                                obj   |-> AveragingAdditionTheorem(space, L, space.samples_H)]
                          ELSE NoEig
    /\ spOp' = "eigenfunctions"
    /\ UNCHANGED space
    /\ UNCHANGED <<fmVars, chVars, atVars>>

\* spEig._difference(X, X2)
Difference ==
    /\ spEig.state = "constructed"
    /\ spOp = "none"
    /\ \E X \in BatchesOf(ManifoldPoints, MaxN), X2 \in BatchesOf(ManifoldPoints, MaxN) :
          spOut' = CallHook(space, "embed_manifold", difference(spEig.obj, X, X2))
    /\ spOp' = "difference"
    /\ UNCHANGED <<space, spEig>>
    /\ UNCHANGED <<fmVars, chVars, atVars>>

\* The caller drops the result or handles the raised error.
SpaceForget ==
    /\ spOp # "none"
    /\ spOp' = "none"
    /\ spOut' = Returned(<<>>)
    /\ UNCHANGED <<space, spEig>>
    /\ UNCHANGED <<fmVars, chVars, atVars>>

(***************************************************************************)
(* Specifications: one per object, the other objects constructed and left  *)
(* alone.                                                                  *)
(***************************************************************************)
QuietFM == InitFM /\ fmap = [variant |-> "SPD", num_random_phases |-> 1]
QuietChar == InitChar /\ chr = AveragedLieGroupCharacter(1, <<0>>)
QuietAT ==
    InitAT /\ at = AveragingAdditionTheorem(
                      CompactHomogeneousSpace(ConcreteClass, MatrixLieGroup("left"), <<Rot2(0)>>, 1),
                      1, <<Rot2(0)>>)
QuietSpace == InitSpace /\ space = [state |-> "class", cls |-> ConcreteClass]

InitFeatureMap == InitFM /\ QuietChar /\ QuietAT /\ QuietSpace

NextChar ==
    \/ CharacterCall
    \/ CharacterForget

InitCharacter == QuietFM /\ InitChar /\ QuietAT /\ QuietSpace

NextAT ==
    \/ AdditionTheorem
    \/ AdditionTheoremDiag
    \/ AdditionForget

InitAddition == QuietFM /\ QuietChar /\ InitAT /\ QuietSpace

NextSpace ==
    \/ Construct
    \/ Random
    \/ MakeEigenfunctions
    \/ Difference
    \/ SpaceForget

NextFrame ==
    \/ AdditionTheorem
    \/ AdditionTheoremDiag
    \/ NumLevels
    \/ NumEigenfunctions
    \/ NumEigenfunctionsPerLevel
    \/ AdditionForget
    \/ MutateCatalogue

InitFrame == QuietFM /\ QuietChar /\ InitATOfSpace /\ QuietSpace

InitSwap == QuietFM /\ QuietChar /\ InitATDeep /\ QuietSpace

InitHomogeneous == QuietFM /\ QuietChar /\ QuietAT /\ InitSpace

SpecFM == InitFeatureMap /\ [][NextFM]_vars

SpecChar == InitCharacter /\ [][NextChar]_vars

SpecAT == InitAddition /\ [][NextAT]_vars

SpecSwap == InitSwap /\ [][NextAT]_vars

SpecSpace == InitHomogeneous /\ [][NextSpace]_vars

SpecFrame == InitFrame /\ [][NextFrame]_vars

(***************************************************************************)
(* Properties of the rejection-sampling feature maps (SpecFM).             *)
(***************************************************************************)
\* The sampling steps the running call has completed.
Sampled == pc \in {"power", "normalize", "return", "done"}

\* C1: in every call the random state is threaded strictly sequentially.
\* The caller's state is consumed by random_phases and by nothing else, the
\* state random_phases returned is the one the density sampler consumes,
\* the state the density sampler returned is the one handed back to the
\* caller, no state is consumed by two sampling steps, and the phases are
\* drawn before the spectral parameters.
C1_StateThreadedSequentially ==
    /\ pc \in {"idle", "random_phases"} => trace = <<>>
    /\ pc = "density_sample" => Len(trace) = 1
    /\ Sampled => Len(trace) = 2
    /\ Len(trace) >= 1 =>
          /\ trace[1].op = "random_phases"
          /\ trace[1].consumed = state0
          /\ trace[1].returned # trace[1].consumed
    /\ Len(trace) = 2 =>
          /\ trace[2].op = "density_sample"
          /\ trace[2].consumed = trace[1].returned
          /\ trace[2].consumed # trace[1].consumed
          /\ trace[2].returned # trace[2].consumed
          /\ trace[2].returned # trace[1].consumed
          /\ StateOf(key, genState) = trace[2].returned
    /\ pc = "done" => StateOf(ret.key, genState) = trace[2].returned

\* A finished call that started from a state other than the initial one.
C1_Witness ==
    /\ pc = "done"
    /\ Len(trace) = 2
    /\ inp.key = FunctionalKey(1)
    /\ ret.key = FunctionalKey(3)

\* C2: for N input points and O random phases the feature matrix is a real
\* [N, 2*O] matrix: row n holds the real parts of the O power-function
\* values of point n in its first O columns and their imaginary parts in
\* its last O columns.
C2_FeatureShape ==
    pc = "done" =>
        /\ Len(ret.features) = Len(inp.X)
        /\ \A n \in 1..Len(inp.X) :
              /\ Len(ret.features[n].num) = 2 * fmap.num_random_phases
              /\ \A o \in 1..fmap.num_random_phases :
                    LET v == space_power_function(fmap.variant, random_lambda[o],
                                                  inp.X[n], random_phases_v[o])
                    IN  /\ ret.features[n].num[o] = v.re
                        /\ ret.features[n].num[fmap.num_random_phases + o] = v.im
                        /\ ret.features[n].num[o] \in Int
                        /\ ret.features[n].num[fmap.num_random_phases + o] \in Int

\* A finished call on two points with two phases whose power-function
\* values have real parts different from their imaginary parts.
C2_Witness ==
    /\ pc = "done"
    /\ Len(inp.X) = 2
    /\ fmap.num_random_phases = 2
    /\ Len(ret.features[2].num) = 4
    /\ ret.features[2].num[1] # ret.features[2].num[3]
    /\ ret.features[2].num[2] # ret.features[2].num[4]

\* C3: called with normalize True, None or omitted, the feature map divides
\* every row by its own Euclidean norm, so that every row has norm 1 (the
\* squares of its numerators sum to its squared denominator); called with
\* normalize False it returns the rows at their raw scale, unchanged.
C3_Normalization ==
    pc = "done" =>
        IF inp.normalize \in {"True", "None"}
        THEN /\ Len(ret.features) = Len(inp.X)
             /\ \A n \in 1..Len(ret.features) :
                   /\ ret.features[n].num = ConcatRealImag(p)[n].num
                   /\ ret.features[n].den2 > 0
                   /\ SumSq(ret.features[n].num) = ret.features[n].den2
        ELSE ret.features = ConcatRealImag(p)

\* A finished call with normalize left at None on two points whose raw rows
\* have different norms, neither of them 1.
C3_Witness ==
    /\ pc = "done"
    /\ inp.normalize = "None"
    /\ Len(inp.X) = 2
    /\ ret.features[1].den2 # ret.features[2].den2
    /\ ret.features[1].den2 # Pow2(2 * FracBits)
    /\ ret.features[2].den2 # Pow2(2 * FracBits)

\* C4: with a pure-functional random state, a second call with the same
\* state, the same X, the same hyperparameters and the same normalize flag
\* returns the same state and the same feature matrix as the first.
C4_Deterministic ==
    (pc = "done" /\ round = 2 /\ inp.key.kind = "functional") => ret = prev

\* A repeated call with a functional key, finished after the live generator
\* of the backend has been advanced by an earlier call.
C4_Witness ==
    /\ pc = "done"
    /\ round = 2
    /\ inp.key.kind = "functional"
    /\ genState > 0
    /\ ret = prev
    /\ ret.features # <<>>

(***************************************************************************)
(* Properties of the averaged character (SpecChar).                        *)
(***************************************************************************)
\* The sum of the wrapped character over the rows (u, g, v), u, v in 1..S,
\* of a batch laid out as [S, N, S].
SumOverUV(chi, gammas, S, N, g) ==
    SeqSum(Tuple([u \in 1..S |-> SeqSum(Tuple([v \in 1..S |->
        LieGroupCharacter(chi.signature, gammas[(u - 1) * N * S + (g - 1) * S + v])]))]))

\* The last call returned the averages of C6.
AveragesReturned ==
    (chrCalled /\ Len(chrIn) % (chr.average_order * chr.average_order) = 0) =>
        LET S == chr.average_order
            N == Len(chrIn) \div (S * S)
        IN  /\ chrOut.ok
            /\ Len(chrOut.value) = N
            /\ \A g \in 1..N :
                  /\ chrOut.value[g].den = S * S
                  /\ chrOut.value[g].num = SumOverUV(chr, chrIn, S, N, g)

\* C6: on S*N*S rows laid out as [S, N, S] the averaged character returns
\* exactly N values, value g being the sum of the wrapped character over the
\* S*S rows (u, g, v) divided by S*S; the call changes neither the averaged
\* character nor any other object, and its result is a function of the
\* input and S alone.
C6_AveragedCharacter ==
    /\ []AveragesReturned
    /\ [][chr' = chr /\ UNCHANGED <<fmVars, atVars, hsVars>>]_vars

\* A call with S = 2 on eight rows whose two averages differ.
C6_Witness ==
    /\ chrCalled
    /\ chr.average_order = 2
    /\ chr.signature = <<1>>
    /\ Len(chrIn) = 8
    /\ chrOut.ok
    /\ Len(chrOut.value) = 2
    /\ chrOut.value[1].num # chrOut.value[2].num

\* C7: the averaged character fails, returning no value, whenever the
\* number of input rows is not a multiple of S*S.
C7_RowCountContract ==
    (chrCalled /\ Len(chrIn) % (chr.average_order * chr.average_order) # 0) =>
        /\ ~chrOut.ok
        /\ chrOut.value = <<>>

\* A failed call with S = 2 on six rows.
C7_Witness ==
    /\ chrCalled
    /\ chr.average_order = 2
    /\ Len(chrIn) = 6
    /\ ~chrOut.ok

(***************************************************************************)
(* Properties of the averaging addition theorem (SpecAT).                  *)
(***************************************************************************)
\* The group difference of self on one pair of elements.
RelativeElement(self, a, b) == G_difference(self.G_difference, <<a>>, <<b>>)[1][1]

\* The torus representatives of the S*S elements obtained from the group
\* difference of embed(x) and embed(x2) by right-convolving it with the
\* b-th stabilizer sample and left-convolving with the a-th, for all
\* ordered pairs (a, b).
ConvolvedGammas(self, x, x2) ==
    LET d == RelativeElement(self, embed_manifold(<<x>>)[1], embed_manifold(<<x2>>)[1])
    IN  Tuple([a \in 1..self.average_order |-> Tuple([b \in 1..self.average_order |->
            G_torus_representative(
                <<RelativeElement(self, self.samples_H[a],
                                  RelativeElement(self, d, self.samples_H[b]))>>)[1]])])

\* The sum of the character of signature over the pairs (a, b).
PairSum(signature, gammas) ==
    SeqSum(Tuple([a \in 1..Len(gammas) |->
        SeqSum(Tuple([b \in 1..Len(gammas[a]) |->
            LieGroupCharacter(signature, gammas[a][b])]))]))

\* C5: addition_theorem(X, X2) is an [N1, N2, L] tensor whose entry
\* (i, j, l) is dimension_l times the mean, over the S*S ordered pairs
\* (a, b) of stabilizer samples, of character_l at the torus representative
\* of the difference of embed(X[i]) and embed(X2[j]) right-convolved with
\* h_b and left-convolved with h_a: the flattening keeps every pair (i, j)
\* apart, and the last axis follows the level order.
C5_AdditionTheoremEntries ==
    atOp = "addition_theorem" =>
        /\ atOut.ok
        /\ Len(atOut.value) = Len(atX)
        /\ \A i \in 1..Len(atX) :
              /\ Len(atOut.value[i]) = Len(atX2)
              /\ \A j \in 1..Len(atX2) :
                    /\ Len(atOut.value[i][j]) = at.num_levels
                    /\ LET gammas == ConvolvedGammas(at, atX[i], atX2[j])
                       IN  \A l \in 1..at.num_levels :
                             /\ atOut.value[i][j][l].den = at.average_order * at.average_order
                             /\ atOut.value[i][j][l].num =
                                   (2 * (l - 1) + 1) * PairSum(<<l - 1>>, gammas)

\* An evaluation on two by two points with two samples and three levels
\* whose entries (1, 2) and (2, 1) differ from entry (1, 1).
C5_Witness ==
    /\ atOp = "addition_theorem"
    /\ Len(atX) = 2
    /\ Len(atX2) = 2
    /\ atX # atX2
    /\ at.average_order = 2
    /\ at.num_levels = 3
    /\ atOut.ok
    /\ atOut.value[1][2] # atOut.value[2][1]
    /\ atOut.value[1][2] # atOut.value[1][1]

\* C8: addition_theorem_diag(X) is an [N, L] tensor whose entry (i, l) is
\* dimension_l times the projected character value at the identity of
\* signature_l, the same for every i and whatever the stabilizer samples
\* are.
C8_DiagonalEntries ==
    atOp = "addition_theorem_diag" =>
        /\ atOut.ok
        /\ Len(atOut.value) = Len(atX)
        /\ \A i \in 1..Len(atX) :
              /\ Len(atOut.value[i]) = at.num_levels
              /\ atOut.value[i] = atOut.value[1]
              /\ \A l \in 1..at.num_levels :
                    atOut.value[i][l] =
                        (2 * (l - 1) + 1) * compute_projected_character_value_at_e(<<l - 1>>)

\* A diagonal evaluation on two points with two samples and three levels.
C8_Witness ==
    /\ atOp = "addition_theorem_diag"
    /\ Len(atX) = 2
    /\ at.average_order = 2
    /\ at.num_levels = 3
    /\ atOut.value[2] = <<1, 3, 5>>

\* a/b = c/d for rationals [num, den] with positive denominators.
SameRational(q, r) == q.num * r.den = r.num * q.den

(***************************************************************************)
(* Properties of the addition theorem that depend on the samples and on    *)
(* the group's difference (SpecSwap).  The values are exact rationals, so  *)
(* two entries that differ at all differ by at least dimension_l / S^2.    *)
(***************************************************************************)
\* The number of times x occurs in the batch s.
Count(s, x) == Cardinality({k \in 1..Len(s) : s[k] = x})

\* The batch holds every element as often as its inverse.
InversionClosed(samples) ==
    \A k \in 1..Len(samples) :
        Count(samples, samples[k]) = Count(samples, G_inverse(samples[k]))

\* The object with each of its samples replaced by its inverse.
WithInvertedSamples(self) ==
    [self EXCEPT !.samples_H = Tuple([k \in 1..Len(@) |-> G_inverse(@[k])])]

\* Entry (i, j, l) of out equals entry (j, i, l) of swapped, for all i, j, l.
Transposed(out, swapped, N1, N2, L) ==
    /\ swapped.ok
    /\ Len(swapped.value) = N2
    /\ \A i \in 1..N1, j \in 1..N2, l \in 1..L :
          SameRational(out.value[i][j][l], swapped.value[j][i][l])

DiagonalElement(convention, x, y) ==
    Relative(convention, x, Relative(convention, Identity(G_n), y))

\* The sum of the character of signature over the elements of all ordered
\* pairs of the batch samples.
SamplePairSum(convention, signature, samples) ==
    SeqSum(Tuple([a \in 1..Len(samples) |->
        SeqSum(Tuple([b \in 1..Len(samples) |->
            LieGroupCharacter(signature,
                TorusRepresentative(DiagonalElement(convention, samples[a], samples[b])))]))]))

RECURSIVE Pow(_, _)
\* b to the power n.
Pow(b, n) == IF n = 0 THEN 1 ELSE b * Pow(b, n - 1)

\* The whole stabilizer, as elements of G.
H_elements == embed_stabilizer(StabilizerLattice)

\* The character of signature at the diagonal element of each pair of
\* elements of the stabilizer.
PairTable(convention, signature) ==
    Tuple([x \in 1..Len(H_elements) |-> Tuple([y \in 1..Len(H_elements) |->
        LieGroupCharacter(signature,
            TorusRepresentative(DiagonalElement(convention, H_elements[x], H_elements[y])))])])

\* SamplePairSum of the batch of indices t, read from the table.
TablePairSum(table, t) ==
    SeqSum(Tuple([a \in 1..Len(t) |-> SeqSum(Tuple([b \in 1..Len(t) |-> table[t[a]][t[b]]]))]))

RECURSIVE BatchesPairSum(_, _, _)
\* The sum of SamplePairSum over all batches of S elements of the stabilizer
\* that begin with the indices in prefix.
BatchesPairSum(table, prefix, S) ==
    IF Len(prefix) = S THEN TablePairSum(table, prefix)
    ELSE SeqSum(Tuple([x \in 1..Len(H_elements) |->
             BatchesPairSum(table, Append(prefix, x), S)]))

\* The sum of SamplePairSum over all batches of S elements of the stabilizer.
SumOverBatches(convention, signature, S) ==
    BatchesPairSum(PairTable(convention, signature), <<>>, S)

\* The sum of the character of signature over the elements of the pairs
\* (h, h), h ranging over the stabilizer.
EqualPairSum(convention, signature) ==
    SeqSum(Tuple([x \in 1..Len(H_elements) |->
        LieGroupCharacter(signature,
            TorusRepresentative(DiagonalElement(convention, H_elements[x], H_elements[x])))]))

C11_PhasesSpecialOrthogonal ==
    (fmap.variant = "SPD" /\ pc \notin {"idle", "random_phases"}) =>
        /\ Len(random_phases_v) = fmap.num_random_phases
        /\ \A o \in 1..Len(random_phases_v) :
              /\ matmul(transpose(random_phases_v[o]), random_phases_v[o]) = Identity(degree)
              /\ det(random_phases_v[o]) = 1
        /\ trace[1].op = "random_phases"
        /\ trace[1].returned = randn(FunctionalKey(trace[1].consumed), 0).key.val

\* Phases drawn for two frames, the first from a Gaussian matrix of positive
\* determinant and the second from one of negative determinant.
C11_Witness ==
    /\ fmap.variant = "SPD"
    /\ pc = "density_sample"
    /\ fmap.num_random_phases = 2
    /\ det(GaussMatrix(trace[1].consumed, 1)) > 0
    /\ det(GaussMatrix(trace[1].consumed, 2)) < 0
    /\ det(random_phases_v[2]) = 1

(***************************************************************************)
(* The feature map on a batch of the wrong shape (SpecFM).                 *)
(***************************************************************************)
\* The running call was given a batch that is not one of square matrices.
Misshapen == pc # "idle" /\ ~WellShaped(fmap.variant, inp.shape)

\* C13 as stated: a batch whose shape is inconsistent with the space is
\* rejected before random phases or spectral parameters are drawn, so no
\* sampling step has run and the random state is not consumed.
C13_RejectedBeforeSampling ==
    Misshapen => (trace = <<>> /\ StateOf(key, genState) = state0)

\* C13, amended: the SPD feature map does not look at the shape of X at its
\* entry.  A batch of vectors is rejected by the backend inside
\* power_function, after the random phases and the spectral parameters have
\* been drawn: the error is raised with both sampling steps done and the
\* random state advanced by both, before any feature is computed, and the
\* call returns nothing.
C13_RejectedInPowerFunction ==
    /\ Misshapen => pc \in {"random_phases", "density_sample", "power", "error"}
    /\ pc = "error" =>
          /\ Misshapen
          /\ Len(trace) = 2
          /\ trace[1].op = "random_phases"
          /\ trace[2].op = "density_sample"
          /\ StateOf(key, genState) = trace[2].returned
          /\ StateOf(key, genState) # state0
          /\ inp.key.kind = "stateful" => genState = state0 + 2
          /\ p = <<>>
          /\ features = <<>>
          /\ ret = NoRet

\* A call on one vector with a stateful generator, ended by the error after
\* the generator was advanced twice.
C13_Witness ==
    /\ pc = "error"
    /\ inp.shape = <<1, degree>>
    /\ inp.key = StatefulKey
    /\ state0 = 0
    /\ genState = 2
    /\ Len(random_phases_v) = fmap.num_random_phases
    /\ Len(random_lambda) = fmap.num_random_phases

(***************************************************************************)
(* Properties of compact homogeneous spaces (SpecSpace).                   *)
(***************************************************************************)
\* The class of the space leaves at least one of the three hooks undefined.
MissingHook == AbstractMethods(space.cls) # {}

\* The hook an operation of the space runs first.
HookOf(op) ==
    CASE op = "random"         -> "project_to_manifold"
      [] op = "eigenfunctions" -> "embed_stabilizer"
      [] op = "difference"     -> "embed_manifold"

\* C12, as stated: a space whose class does not supply one of
\* project_to_manifold, embed_manifold and embed_stabilizer is constructed all
\* the same, the failure being left to the first use of the missing hook.
C12_MissingHookFailsAtFirstUse ==
    (space.state # "class" /\ MissingHook) => space.state = "constructed"

\* C12, amended: instantiating a class that leaves one of the three hooks
\* undefined raises TypeError, so that no space exists and no operation of it
\* ever runs; only a class that defines all three is constructed.  On a
\* constructed space an operation raises exactly when the hook it runs is one
\* whose body is the inherited one, the error is NotImplementedError, and
\* no eigenfunctions object results from a raising embed_stabilizer.
C12_MissingHookFailsAtConstruction ==
    /\ (space.state # "class" /\ MissingHook) =>
           /\ space.state = "TypeError"
           /\ spEig = NoEig
           /\ spOp = "none"
    /\ space.state = "TypeError" => MissingHook
    /\ spOp # "none" =>
           /\ space.state = "constructed"
           /\ spOut.ok <=> space.cls[HookOf(spOp)] = "concrete"
           /\ ~spOut.ok => spOut.error = "NotImplementedError"
    /\ spEig.state = "constructed" =>
           /\ space.cls["embed_stabilizer"] = "concrete"
           /\ spEig.obj.samples_H = embed_stabilizer(space.samples_H)

\* The instantiation of a class that defines two of the hooks and leaves
\* embed_manifold undefined has raised.
C12_Witness ==
    /\ space.state = "TypeError"
    /\ AbstractMethods(space.cls) = {"embed_manifold"}
    /\ space.cls["project_to_manifold"] = "concrete"
    /\ space.cls["embed_stabilizer"] = "concrete"

(***************************************************************************)
(* Properties of a constructed addition theorem under calls, accessor      *)
(* reads and writes to the catalogue of the group (SpecFrame).             *)
(***************************************************************************)
\* The object holds what its constructor computed from the samples of the
\* space and from the first num_levels levels of the group, every per-level
\* array being num_levels long.
AsConstructed ==
    LET G_eigenfunctions == G_get_eigenfunctions(at.num_levels)
    IN  /\ at.average_order = Len(at.M.samples_H)
        /\ at.samples_H = embed_stabilizer(at.M.samples_H)
        /\ at.signatures = G_eigenfunctions.signatures
        /\ at.eigenvalues = G_eigenfunctions.eigenvalues
        /\ at.dimensions = G_eigenfunctions.dimensions
        /\ Len(at.signatures) = at.num_levels
        /\ Len(at.eigenvalues) = at.num_levels
        /\ Len(at.dimensions) = at.num_levels
        /\ Len(at.characters) = at.num_levels
        /\ \A l \in 1..at.num_levels :
              at.characters[l] =
                  AveragedLieGroupCharacter(Len(at.M.samples_H), G_eigenfunctions.signatures[l])

\* C14: once an AveragingAdditionTheorem is constructed, no call of
\* addition_theorem, of addition_theorem_diag or of an accessor and no write
\* to the arrays of the group's catalogue changes the object: its average
\* order, its embedded samples, its number of levels and its per-level
\* signatures, eigenvalues, dimensions and characters stay what the
\* constructor made them.
C14_FrameUnchanged == []AsConstructed /\ [][at' = at]_vars

\* addition_theorem has run on two points after the dimensions of the
\* catalogue were overwritten, and the object still has its own.
C14_Witness ==
    /\ atOp = "addition_theorem"
    /\ atOut.ok
    /\ Len(atX) = 1
    /\ Len(atX2) = 1
    /\ at.num_levels = MaxL
    /\ catalogue.dimensions = Fill(at.dimensions, 0)
    /\ at.dimensions # catalogue.dimensions

\* C15, as stated: num_levels returns L, num_eigenfunctions_per_level
\* returns a list of L ones and num_eigenfunctions returns their sum, L,
\* without raising.
C15_AccessorsConsistent ==
    LET ones == Tuple([l \in 1..at.num_levels |-> 1])
    IN  /\ atOp = "num_levels" => atOut = Returned(at.num_levels)
        /\ atOp = "num_eigenfunctions_per_level" => atOut = Returned(ones)
        /\ atOp = "num_eigenfunctions" => atOut = Returned(SeqSum(ones))

\* The batch of torus representatives that _addition_theorem hands to each
\* averaged character.
CharacterBatch(self, X, X2) ==
    LET diff       == Flatten(difference(self, X, X2))
        diff_h2    == Flatten(G_difference(self.G_difference, diff, self.samples_H))
        h1_diff_h2 == Flatten(G_difference(self.G_difference, self.samples_H, diff_h2))
    IN  G_torus_representative(h1_diff_h2)

\* C16: the average order of every averaged character of the object is the
\* number S of samples the constructor was given, whatever the
\* average_order of the space is; the batch that addition_theorem hands to
\* the characters has S * N1 * N2 * S rows, a multiple of S * S, and the
\* call never fails on the reshape of an averaged character.
C16_AverageOrderIsSampleCount ==
    LET S == Len(at.M.samples_H)
    IN  /\ at.average_order = S
        /\ Len(at.samples_H) = S
        /\ \A l \in 1..Len(at.characters) : at.characters[l].average_order = S
        /\ atOp = "addition_theorem" =>
              LET rows == Len(CharacterBatch(at, atX, atX2))
              IN  /\ rows = S * Len(atX) * Len(atX2) * S
                  /\ rows % (S * S) = 0
                  /\ atOut.ok
                  /\ Len(atOut.value) = Len(atX)

\* addition_theorem has returned for one pair of points on an object of one
\* sample whose space has an average_order of MaxS.
C16_Witness ==
    /\ atOp = "addition_theorem"
    /\ Len(at.M.samples_H) = 1
    /\ at.M.average_order = MaxS
    /\ at.M.average_order # Len(at.M.samples_H)
    /\ Len(atX) = 1
    /\ Len(atX2) = 1
    /\ atOut.ok

============================================================================
